---- MODULE Spec2Model ----
(***************************************************************************)
(* COBS (Consistent Overhead Byte Stuffing) codec of cobs-simd: the zero   *)
(* finders, the block iterator, the encoders selected by Method, and the   *)
(* decoder.  Bytes are the integers 0..255; a slice is a sequence; usize   *)
(* indices of the source are 0-based, sequence indices here are 1-based.   *)
(***************************************************************************)
EXTENDS Integers, Sequences, FiniteSets, TLC

VARIABLES
    input,            \* the caller's byte slice
    overflow_checks,  \* build profile: TRUE = arithmetic overflow panics, FALSE = it wraps
    op,               \* the calls made so far: "none", "encode", "roundtrip", "decode",
                      \* "find", "iter"
    method,           \* Method passed to cobs_encode_to
    output,           \* the caller's output buffer after the encode call
    bytes_written,    \* the value cobs_encode_to returned
    status,           \* "none", "ok", "panic" (safe-Rust panic), "fault" (crash after UB)
    hi,               \* 1 + the highest output index a write was aimed at
    ub,               \* TRUE when a raw-pointer write was aimed outside the buffer
    decoded,          \* what cobs_decode returned
    dstatus,          \* "none", "ok", "panic"
    short,            \* cobs_decode met a length byte declaring more bytes than remain
    reads,            \* 1 + the highest input index cobs_decode read
    window,           \* the byte window handed to the zero finders
    found,            \* finder name -> its result on window
    zero_method,      \* the ZeroMethod the BlockIter is instantiated with
    processed,        \* BlockIter.processed
    max_block_size,   \* BlockIter.max_block_size
    block,            \* what the last BlockIter::next returned (None or Some(slice))
    pulls             \* number of BlockIter::next calls that yielded a block

vars == <<input, overflow_checks, op, method, output, bytes_written, status, hi, ub,
          decoded, dstatus, short, reads, window, found,
          zero_method, processed, max_block_size, block, pulls>>

encVars == <<method, output, bytes_written, status, hi, ub>>
decVars == <<decoded, dstatus, short, reads>>
findVars == <<window, found>>
iterVars == <<zero_method, processed, max_block_size, block, pulls>>

(***************************************************************************)
(* Bounds of the model and the inputs drawn from them.                     *)
(***************************************************************************)
\* An input is 1..MaxRuns zero-free runs joined by single zero bytes.
MaxRuns == 3
\* Extra bytes of output buffer beyond encoded_size_upper_bound ("sufficient size").
Slack == 2
\* Lengths of the zero-free runs an input is built from.
RunLens == {0, 1, 254, 255}
\* Lengths of the additional inputs that hold no zero at all.
LongRuns == {253, 256, 300, 507, 508, 509}

\* The longest byte window handed to the zero finders on their own.
MaxWindow == 70

\* The largest payload of one wire record (the literal 254 of the encoders).
MaxBlock == 254

Min(a, b) == IF a < b THEN a ELSE b
Max(a, b) == IF a > b THEN a ELSE b
SetMin(S) == CHOOSE x \in S : \A y \in S : x <= y

None == <<>>
Some(x) == <<x>>

\* The non-zero byte stored at input position i (1..255, all values occur).
ByteAt(i) == ((i - 1) % 255) + 1

\* The n bytes with zeros at the positions Z and ByteAt elsewhere, as a sequence.
Bytes(n, Z) == SubSeq([i \in 1..n |-> IF i \in Z THEN 0 ELSE ByteAt(i)], 1, n)

\* vec![0; cap]
Zeroed(cap) == SubSeq([i \in 1..cap |-> 0], 1, cap)

RECURSIVE ZeroPositions(_, _, _)
\* Positions of the separating zeros of the runs shape[k..], the first run starting after `base`.
ZeroPositions(shape, k, base) ==
    IF k >= Len(shape) THEN {}
    ELSE {base + shape[k] + 1} \cup ZeroPositions(shape, k + 1, base + shape[k] + 1)

RECURSIVE SumSeq(_, _)
SumSeq(s, k) == IF k > Len(s) THEN 0 ELSE s[k] + SumSeq(s, k + 1)

FromShape(shape) ==
    LET n == SumSeq(shape, 1) + Len(shape) - 1
        Z == ZeroPositions(shape, 1, 0)
    IN  Bytes(n, Z)

Shapes == UNION {[1..k -> RunLens] : k \in 1..MaxRuns}

Inputs == {FromShape(s) : s \in Shapes} \cup {FromShape(<<n>>) : n \in LongRuns}

\* Windows for the zero finders: every length up to MaxWindow, with no zero, with one
\* zero at any position, or with a zero at any position and another zero as last byte.
Windows ==
    UNION {{Bytes(n, Z) : Z \in {{}} \cup {{z} : z \in 1..n} \cup {{z, n} : z \in 1..n}} :
           n \in 0..MaxWindow}

(***************************************************************************)
(* Zero finders.  Each returns Some(i), i the 0-based index of a zero byte *)
(* of data, or None.                                                       *)
(***************************************************************************)

\* data.iter().position(|x| *x == 0)
next_zero_index(data) ==
    LET zeros == {i \in 1..Len(data) : data[i] = 0}
    IN  IF zeros = {} THEN None ELSE Some(SetMin(zeros) - 1)

RECURSIVE ScalarTail(_, _, _)
\* `for b in block { if *b == 0 { return Some(n) } else { n += 1 } }` from byte k on:
\* [hit |-> a zero was met, n |-> nonzero_bytes at that point].
ScalarTail(blk, k, nonzero_bytes) ==
    IF k > Len(blk) THEN [hit |-> FALSE, n |-> nonzero_bytes]
    ELSE IF blk[k] = 0 THEN [hit |-> TRUE, n |-> nonzero_bytes]
    ELSE ScalarTail(blk, k + 1, nonzero_bytes + 1)

\* _mm_cmpestri(_mm_setzero_si128(), 1, v, 16, _SIDD_CMP_EQUAL_ORDERED): the least
\* index at which the one-byte needle 0 occurs in the 16 bytes of v, or 16.
mm_cmpestri(v) ==
    LET hits == {i \in 0..15 : v[i + 1] = 0}
    IN  IF hits = {} THEN 16 ELSE SetMin(hits)

RECURSIVE Chunks16Scan(_, _, _)
\* The loop `for block in data.chunks(16)` with the chunk starting at 1-based pos.
Chunks16Scan(data, pos, nonzero_bytes) ==
    IF pos > Len(data) THEN None
    ELSE LET blk == SubSeq(data, pos, Min(pos + 15, Len(data)))
         IN  IF Len(blk) # 16
             THEN LET t == ScalarTail(blk, 1, nonzero_bytes)
                  IN  IF t.hit THEN Some(t.n) ELSE Chunks16Scan(data, pos + 16, t.n)
             ELSE LET res == mm_cmpestri(blk)
                  IN  IF res < 16 THEN Some(nonzero_bytes + res)
                      ELSE Chunks16Scan(data, pos + 16, nonzero_bytes + res)

\* block_iter.rs: fn next_zero_index_simd
next_zero_index_simd(data) == Chunks16Scan(data, 1, 0)

\* next_zero_simd_128.rs: SimdBlocks16::next_zero_index
SimdBlocks16_next_zero_index(data) == Chunks16Scan(data, 1, 0)

RECURSIVE trailing_zeros(_, _, _)
\* bitmask.trailing_zeros() of an N-bit mask given as bit i |-> BOOLEAN: the number of
\* clear bits below the lowest set bit, N when no bit is set.
trailing_zeros(bitmask, N, i) ==
    IF i >= N THEN N
    ELSE IF bitmask[i] THEN i
    ELSE trailing_zeros(bitmask, N, i + 1)

\* Mutant of first_zero_in_vector: counts the leading instead of the trailing zeros.
first_zero_in_vector_clz(blk, N) ==
    LET hits == {i \in 0..(N - 1) : blk[i + 1] = 0}
    IN  IF hits = {} THEN N ELSE N - 1 - (CHOOSE x \in hits : \A y \in hits : y <= x)

\* block.simd_eq(splat(0)).to_bitmask().trailing_zeros(): lane i is bit i.
first_zero_in_vector(blk, N) ==
    LET bitmask == [i \in 0..(N - 1) |-> blk[i + 1] = 0]
    IN  trailing_zeros(bitmask, N, 0)

RECURSIVE ArrayChunksScan(_, _, _, _)
\* `for block in data.array_chunks::<N>()` from the chunk at pos on, then the remainder.
\* nonzero_bytes is a u32 in the source; the windows of this model stay far below 2^32.
ArrayChunksScan(data, N, pos, nonzero_bytes) ==
    IF pos + N - 1 <= Len(data)
    THEN LET index == first_zero_in_vector(SubSeq(data, pos, pos + N - 1), N)
         IN  IF index < N THEN Some(nonzero_bytes + index)
             ELSE ArrayChunksScan(data, N, pos + N, nonzero_bytes + index)
    ELSE LET t == ScalarTail(SubSeq(data, pos, Len(data)), 1, nonzero_bytes)
         IN  IF t.hit THEN Some(t.n) ELSE None

\* next_zero_std_simd.rs: SimdBlocksGeneric::<N>::next_zero_index
SimdBlocksGeneric_next_zero_index(data, N) == ArrayChunksScan(data, N, 1, 0)

\* The implementations of the trait NextZeroIndex a BlockIter can be instantiated with.
ZeroMethods == {"SimdBlocks16", "SimdBlocksGeneric8", "SimdBlocksGeneric16",
                "SimdBlocksGeneric32"}

\* ZeroMethod::next_zero_index(data)
ZeroMethod_next_zero_index(ZeroMethod, data) ==
    CASE ZeroMethod = "SimdBlocks16" -> SimdBlocks16_next_zero_index(data)
      [] ZeroMethod = "SimdBlocksGeneric8" -> SimdBlocksGeneric_next_zero_index(data, 8)
      [] ZeroMethod = "SimdBlocksGeneric16" -> SimdBlocksGeneric_next_zero_index(data, 16)
      [] ZeroMethod = "SimdBlocksGeneric32" -> SimdBlocksGeneric_next_zero_index(data, 32)

(***************************************************************************)
(* BlockIter.                                                              *)
(***************************************************************************)

\* Mutant of BlockIter_next: the block returned for a zero at i ends one byte early.
BlockIter_next_short_block(ZeroMethod, input_data, p, max) ==
    IF p = Len(input_data) + 1 THEN [item |-> None, processed |-> p]
    ELSE IF p = Len(input_data) THEN [item |-> Some(<<>>), processed |-> p + 1]
    ELSE LET start_index == p
             upper_bound == Min(start_index + max, Len(input_data))
             zero_index == ZeroMethod_next_zero_index(ZeroMethod,
                               SubSeq(input_data, start_index + 1, upper_bound))
         IN  IF zero_index # None
             THEN LET i == zero_index[1]
                  IN  [item |-> Some(SubSeq(input_data, start_index + 1,
                                            start_index + i - 1)),
                       processed |-> p + i + 1]
             ELSE IF upper_bound = Len(input_data)
             THEN [item |-> Some(SubSeq(input_data, start_index + 1, Len(input_data))),
                   processed |-> Len(input_data) + 1]
             ELSE [item |-> Some(SubSeq(input_data, start_index + 1, start_index + max)),
                   processed |-> p + max]

\* Mutant of BlockIter_next: a call made in the done state still advances the cursor.
BlockIter_next_past_done(ZeroMethod, input_data, p, max) ==
    IF p >= Len(input_data) + 1 THEN [item |-> None, processed |-> p + 1]
    ELSE IF p = Len(input_data) THEN [item |-> Some(<<>>), processed |-> p + 1]
    ELSE LET start_index == p
             upper_bound == Min(start_index + max, Len(input_data))
             zero_index == ZeroMethod_next_zero_index(ZeroMethod,
                               SubSeq(input_data, start_index + 1, upper_bound))
         IN  IF zero_index # None
             THEN LET i == zero_index[1]
                  IN  [item |-> Some(SubSeq(input_data, start_index + 1, start_index + i)),
                       processed |-> p + i + 1]
             ELSE IF upper_bound = Len(input_data)
             THEN [item |-> Some(SubSeq(input_data, start_index + 1, Len(input_data))),
                   processed |-> Len(input_data) + 1]
             ELSE [item |-> Some(SubSeq(input_data, start_index + 1, start_index + max)),
                   processed |-> p + max]

\* Mutant of BlockIter_next: the block returned for a zero at i includes that zero.
BlockIter_next_with_zero(ZeroMethod, input_data, p, max) ==
    IF p = Len(input_data) + 1 THEN [item |-> None, processed |-> p]
    ELSE IF p = Len(input_data) THEN [item |-> Some(<<>>), processed |-> p + 1]
    ELSE LET start_index == p
             upper_bound == Min(start_index + max, Len(input_data))
             zero_index == ZeroMethod_next_zero_index(ZeroMethod,
                               SubSeq(input_data, start_index + 1, upper_bound))
         IN  IF zero_index # None
             THEN LET i == zero_index[1]
                  IN  [item |-> Some(SubSeq(input_data, start_index + 1,
                                            start_index + i + 1)),
                       processed |-> p + i + 1]
             ELSE IF upper_bound = Len(input_data)
             THEN [item |-> Some(SubSeq(input_data, start_index + 1, Len(input_data))),
                   processed |-> Len(input_data) + 1]
             ELSE [item |-> Some(SubSeq(input_data, start_index + 1, start_index + max)),
                   processed |-> p + max]

\* BlockIter::next with self.processed = p: [item |-> the Option returned,
\* processed |-> self.processed afterwards].  lib.rs instantiates the iterator as
\* BlockIter::<ZeroMethod>; the zero finder called is that of ZeroMethod
\* (block_iter.rs calls next_zero_index_simd, the same scan as SimdBlocks16).
BlockIter_next(ZeroMethod, input_data, p, max) ==
    IF p = Len(input_data) + 1 THEN [item |-> None, processed |-> p]
    ELSE IF p = Len(input_data) THEN [item |-> Some(<<>>), processed |-> p + 1]
    ELSE LET start_index == p
             upper_bound == Min(start_index + max, Len(input_data))
             zero_index == ZeroMethod_next_zero_index(ZeroMethod,
                               SubSeq(input_data, start_index + 1, upper_bound))
         IN  IF zero_index # None
             THEN LET i == zero_index[1]
                  IN  [item |-> Some(SubSeq(input_data, start_index + 1, start_index + i)),
                       processed |-> p + i + 1]
             ELSE IF upper_bound = Len(input_data)
             THEN [item |-> Some(SubSeq(input_data, start_index + 1, Len(input_data))),
                   processed |-> Len(input_data) + 1]
             ELSE [item |-> Some(SubSeq(input_data, start_index + 1, start_index + max)),
                   processed |-> p + max]

(***************************************************************************)
(* Encoders.  An encoder run is a record st: st.output the buffer, st.status *)
(* "run" while the call is executing and "panic" once an index or slice    *)
(* check, an assertion or an overflow check failed, st.hi 1 + the highest  *)
(* output index a write was aimed at.                                      *)
(***************************************************************************)

\* input_size + (input_size + 254 - 1) / 254
encoded_size_upper_bound(input_size) == input_size + (input_size + 254 - 1) \div 254

\* `output[idx] = val` on a slice: the index check panics when idx >= output.len().
IndexWrite(st, idx, val) ==
    IF st.status # "run" THEN st
    ELSE IF idx >= Len(st.output)
    THEN [st EXCEPT !.status = "panic", !.hi = Max(st.hi, idx + 1)]
    ELSE [st EXCEPT !.output[idx + 1] = val, !.hi = Max(st.hi, idx + 1)]

\* `output[from..from + blk.len()].copy_from_slice(blk)`: the range check panics when
\* the range ends after output.len(), before any byte is copied.
SliceWrite(st, from, blk) ==
    IF st.status # "run" THEN st
    ELSE IF from + Len(blk) > Len(st.output)
    THEN [st EXCEPT !.status = "panic", !.hi = Max(st.hi, from + Len(blk))]
    ELSE [st EXCEPT !.output = SubSeq(st.output, 1, from) \o blk
                                 \o SubSeq(st.output, from + Len(blk) + 1, Len(st.output)),
                    !.hi = IF Len(blk) = 0 THEN st.hi ELSE Max(st.hi, from + Len(blk))]

\* Mutant of WriteRecord: the length prefix is block.len() as u8, without the + 1.
WriteRecord_no_increment(st, blk, checks) ==
    LET s1 == IndexWrite(st, st.out_idx, Len(blk) % 256)
        s2 == SliceWrite(s1, st.out_idx + 1, blk)
    IN  IF s2.status # "run" THEN s2
        ELSE [s2 EXCEPT !.out_idx = st.out_idx + Len(blk) + 1]

\* The loop body shared by the block encoders:
\*   output[out_idx] = block.len() as u8 + 1;
\*   output[out_idx + 1..out_idx + 1 + block.len()].copy_from_slice(block);
\*   out_idx += block.len() + 1;
\* `as u8` truncates; the u8 addition panics on overflow when overflow checks are on.
WriteRecord(st, blk, checks) ==
    LET len8 == Len(blk) % 256
        s0 == IF len8 + 1 > 255 /\ checks /\ st.status = "run"
              THEN [st EXCEPT !.status = "panic"] ELSE st
        s1 == IndexWrite(s0, st.out_idx, (len8 + 1) % 256)
        s2 == SliceWrite(s1, st.out_idx + 1, blk)
    IN  IF s2.status # "run" THEN s2
        ELSE [s2 EXCEPT !.out_idx = st.out_idx + Len(blk) + 1]

EncInit(cap) ==
    [output |-> Zeroed(cap), out_idx |-> 0, status |-> "run", hi |-> 0]

RECURSIVE SingleStageLoop(_, _, _, _, _)
\* `for block in BlockIter::<ZeroMethod>::new(input, 254) { ... }` with the iterator at p.
SingleStageLoop(ZeroMethod, inp, p, st, checks) ==
    IF st.status # "run" THEN st
    ELSE LET r == BlockIter_next(ZeroMethod, inp, p, MaxBlock)
         IN  IF r.item = None THEN st
             ELSE SingleStageLoop(ZeroMethod, inp, r.processed,
                                  WriteRecord(st, r.item[1], checks), checks)

\* fn cobs_encode_to_opt
cobs_encode_to_opt(inp, cap, checks) ==
    SingleStageLoop("SimdBlocks16", inp, 0, EncInit(cap), checks)

\* fn cobs_encode_to_std::<N>: the iterator is BlockIter::<SimdBlocksGeneric<32>> for every N.
cobs_encode_to_std(N, inp, cap, checks) ==
    SingleStageLoop("SimdBlocksGeneric32", inp, 0, EncInit(cap), checks)

RECURSIVE Chunks254_off_by_one(_, _, _, _)
\* Mutant of Chunks254: large_block.chunks(255).
Chunks254_off_by_one(large_block, pos, st, checks) ==
    IF pos > Len(large_block) \/ st.status # "run" THEN st
    ELSE LET blk == SubSeq(large_block, pos, Min(pos + MaxBlock, Len(large_block)))
         IN  Chunks254_off_by_one(large_block, pos + MaxBlock + 1,
                                  WriteRecord(st, blk, checks), checks)

RECURSIVE Chunks254(_, _, _, _)
\* `for block in large_block.chunks(254) { ... }` from 1-based position pos of large_block.
Chunks254(large_block, pos, st, checks) ==
    IF pos > Len(large_block) \/ st.status # "run" THEN st
    ELSE LET blk == SubSeq(large_block, pos, Min(pos + MaxBlock - 1, Len(large_block)))
         IN  Chunks254(large_block, pos + MaxBlock, WriteRecord(st, blk, checks), checks)

RECURSIVE TwoStageLoop(_, _, _, _, _)
\* `for large_block in BlockIter::<ZeroMethod>::new(input, input.len()) { ... }`.
TwoStageLoop(ZeroMethod, inp, p, st, checks) ==
    IF st.status # "run" THEN st
    ELSE LET r == BlockIter_next(ZeroMethod, inp, p, Len(inp))
         IN  IF r.item = None THEN st
             ELSE LET large_block == r.item[1]
                      s1 == IF large_block # <<>>
                            THEN Chunks254(large_block, 1, st, checks)
                            ELSE WriteRecord(st, large_block, checks)
                  IN  TwoStageLoop(ZeroMethod, inp, r.processed, s1, checks)

\* fn cobs_encode_to_chained_iter::<ZeroMethod>
cobs_encode_to_chained_iter(ZeroMethod, inp, cap, checks) ==
    TwoStageLoop(ZeroMethod, inp, 0, EncInit(cap), checks)

\* The i-th item of input.iter().cloned().chain(once(0)), i = 1..input.len() + 1.
Chained(inp, i) == IF i <= Len(inp) THEN inp[i] ELSE 0

\* One iteration of the loop of cobs_encode_to_trivial on byte b.
TrivialStep(st, b) ==
    IF st.status # "run" THEN st
    ELSE LET s0 == IF st.current_block_length = 0
                   THEN [st EXCEPT !.written = st.written + 1] ELSE st
         IN  IF b = 0
             THEN LET overhead_byte_index == s0.written - 1 - s0.current_block_length
                      s1 == IndexWrite(s0, overhead_byte_index, s0.current_block_length + 1)
                  IN  IF s1.status # "run" THEN s1
                      ELSE [s1 EXCEPT !.current_block_length = 0]
             ELSE LET s1 == IndexWrite(s0, s0.written, b)
                      s2 == [s1 EXCEPT !.written = s0.written + 1,
                                       !.current_block_length = s0.current_block_length + 1]
                  IN  IF s1.status # "run" THEN s1
                      ELSE IF s2.current_block_length = MaxBlock
                      THEN LET overhead_byte_index ==
                                   s2.written - 1 - s2.current_block_length
                               s3 == IndexWrite(s2, overhead_byte_index, 255)
                           IN  IF s3.status # "run" THEN s3
                               ELSE [s3 EXCEPT !.current_block_length = 0]
                      ELSE s2

RECURSIVE TrivialLoop(_, _, _, _)
\* The iterations lo..hi of `for b in input.iter().cloned().chain(once(0))`, in order
\* (the range is halved, and the first half evaluated before the second is entered,
\* only to keep the evaluation shallow).
TrivialLoop(inp, lo, hi_, st) ==
    IF lo > hi_ THEN st
    ELSE IF lo = hi_ THEN TrivialStep(st, Chained(inp, lo))
    ELSE LET mid == (lo + hi_) \div 2
             first == TrivialLoop(inp, lo, mid, st)
         IN  IF first.status # "run" THEN first
             ELSE TrivialLoop(inp, mid + 1, hi_, first)

\* fn cobs_encode_to_trivial; the value returned is st.written.
cobs_encode_to_trivial(inp, cap) ==
    LET st == TrivialLoop(inp, 1, Len(inp) + 1,
                  [output |-> Zeroed(cap), written |-> 0,
                   current_block_length |-> 0, status |-> "run", hi |-> 0])
    IN  [output |-> st.output, out_idx |-> st.written, status |-> st.status, hi |-> st.hi]

\* One iteration of the loop of cobs_encode_to_vec on byte b.
VecStep(st, b) ==
    LET s0 == IF st.current_block_length = 0
              THEN [st EXCEPT !.res = Append(st.res, 0)] ELSE st
    IN  IF b = 0
        THEN LET overhead_byte_index == Len(s0.res) - 1 - s0.current_block_length
             IN  [s0 EXCEPT !.res[overhead_byte_index + 1] = s0.current_block_length + 1,
                            !.current_block_length = 0]
        ELSE LET s1 == [s0 EXCEPT !.res = Append(s0.res, b),
                                  !.current_block_length = s0.current_block_length + 1]
             IN  IF s1.current_block_length = MaxBlock
                 THEN LET overhead_byte_index == Len(s1.res) - 1 - s1.current_block_length
                      IN  [s1 EXCEPT !.res[overhead_byte_index + 1] = 255,
                                     !.current_block_length = 0]
                 ELSE s1

RECURSIVE VecLoop(_, _, _, _)
\* The iterations lo..hi of the loop of cobs_encode_to_vec, in order.
VecLoop(inp, lo, hi_, st) ==
    IF lo > hi_ THEN st
    ELSE IF lo = hi_ THEN VecStep(st, Chained(inp, lo))
    ELSE LET mid == (lo + hi_) \div 2
             first == VecLoop(inp, lo, mid, st)
         IN  IF first.current_block_length >= 0
             THEN VecLoop(inp, mid + 1, hi_, first) ELSE first

\* fn cobs_encode_to_vec
cobs_encode_to_vec(inp) ==
    VecLoop(inp, 1, Len(inp) + 1, [res |-> <<>>, current_block_length |-> 0]).res

\* A write through a raw pointer aimed at output index idx: inside the buffer it stores
\* val, outside it is undefined behaviour (st.ub) and leaves the buffer as it was.
PtrWrite(st, idx, val) ==
    IF idx >= Len(st.output)
    THEN [st EXCEPT !.ub = TRUE, !.hi = Max(st.hi, idx + 1)]
    ELSE [st EXCEPT !.output[idx + 1] = val, !.hi = Max(st.hi, idx + 1)]

\* One iteration of `while length > 0` of cobs_encode_to_c; st.byte is the 0-based
\* position of the pointer `byte` in input, st.encode and st.codep those in output.
CStep(st, inp) ==
    LET b == inp[st.byte + 1]
        length == st.length - 1
        s1 == IF b # 0
              THEN [PtrWrite(st, st.encode, b) EXCEPT !.code = st.code + 1,
                                                      !.encode = st.encode + 1]
              ELSE st
        s2 == IF b = 0 \/ s1.code = 255
              THEN LET w == PtrWrite(s1, s1.codep, s1.code)
                   IN  [w EXCEPT !.code = 1, !.codep = s1.encode,
                                 !.encode = IF b = 0 \/ length # 0
                                            THEN s1.encode + 1 ELSE s1.encode]
              ELSE s1
    IN  [s2 EXCEPT !.length = length, !.byte = st.byte + 1]

RECURSIVE CLoop(_, _, _, _)
\* The iterations lo..hi of `while length > 0`, in order.
CLoop(inp, lo, hi_, st) ==
    IF lo > hi_ THEN st
    ELSE IF lo = hi_ THEN CStep(st, inp)
    ELSE LET mid == (lo + hi_) \div 2
             first == CLoop(inp, lo, mid, st)
         IN  IF first.length >= 0 THEN CLoop(inp, mid + 1, hi_, first) ELSE first

\* fn cobs_encode_to_c; the value returned is the offset of `encode` from output[0].
cobs_encode_to_c(inp, cap) ==
    IF ~(cap >= encoded_size_upper_bound(Len(inp))) \/ Len(inp) = 0 \/ cap = 0
    THEN [output |-> Zeroed(cap), out_idx |-> 0, status |-> "panic",
          hi |-> 0, ub |-> FALSE]
    ELSE LET st == CLoop(inp, 1, Len(inp),
                       [output |-> Zeroed(cap), encode |-> 1, codep |-> 0,
                        code |-> 1, byte |-> 0, length |-> Len(inp),
                        ub |-> FALSE, hi |-> 0])
             fin == PtrWrite(st, st.codep, st.code)
         IN  [output |-> fin.output, out_idx |-> fin.encode, status |-> "run",
              hi |-> fin.hi, ub |-> fin.ub]

Methods == {"Trivial", "Crazy", "Simd16", "StdSimd8", "StdSimd16", "StdSimd32",
            "StdSimd8TwoStage", "StdSimd16TwoStage", "StdSimd32TwoStage"}

\* fn cobs_encode_to: the run of the encoder `m` selects, on a buffer of cap bytes.
cobs_encode_to(inp, cap, m, checks) ==
    LET safe(r) == [output |-> r.output, out_idx |-> r.out_idx, status |-> r.status,
                    hi |-> r.hi, ub |-> FALSE]
    IN  CASE m = "Trivial" -> safe(cobs_encode_to_trivial(inp, cap))
          [] m = "Simd16" -> safe(cobs_encode_to_opt(inp, cap, checks))
          [] m = "Crazy" -> cobs_encode_to_c(inp, cap)
          [] m = "StdSimd8" -> safe(cobs_encode_to_std(8, inp, cap, checks))
          [] m = "StdSimd16" -> safe(cobs_encode_to_std(16, inp, cap, checks))
          [] m = "StdSimd32" -> safe(cobs_encode_to_std(32, inp, cap, checks))
          [] m = "StdSimd8TwoStage" ->
                 safe(cobs_encode_to_chained_iter("SimdBlocksGeneric8", inp, cap, checks))
          [] m = "StdSimd16TwoStage" ->
                 safe(cobs_encode_to_chained_iter("SimdBlocksGeneric16", inp, cap, checks))
          [] m = "StdSimd32TwoStage" ->
                 safe(cobs_encode_to_chained_iter("SimdBlocksGeneric32", inp, cap, checks))

(***************************************************************************)
(* Decoder.                                                                *)
(***************************************************************************)

\* Mutant of CopyStep: an exhausted iterator ends the copy silently, as
\* res.extend(it.take(n)) would.
CopyStep_take(inp, st) ==
    IF st.status # "run" THEN st
    ELSE IF st.pos >= Len(inp) THEN st
    ELSE [st EXCEPT !.res = Append(st.res, inp[st.pos + 1]),
                    !.pos = st.pos + 1,
                    !.reads = Max(st.reads, st.pos + 1)]

\* One iteration of `for i in 0..n { res.push(it.next().unwrap()) }` with the iterator
\* `it` at 0-based position st.pos: unwrap panics when `it` is exhausted.
CopyStep(inp, st) ==
    IF st.status # "run" THEN st
    ELSE IF st.pos >= Len(inp) THEN [st EXCEPT !.status = "panic"]
    ELSE [st EXCEPT !.res = Append(st.res, inp[st.pos + 1]),
                    !.pos = st.pos + 1,
                    !.reads = Max(st.reads, st.pos + 1)]

RECURSIVE CopyRun(_, _, _)
\* n iterations of that loop, in order.
CopyRun(inp, n, st) ==
    IF n = 0 THEN st
    ELSE IF n = 1 THEN CopyStep(inp, st)
    ELSE LET first == CopyRun(inp, n \div 2, st)
         IN  IF first.status # "run" THEN first
             ELSE CopyRun(inp, n - n \div 2, first)

RECURSIVE DecodeLoop_always_separates(_, _, _)
\* Mutant of DecodeLoop: the separator is appended after a record of length byte 255 too.
DecodeLoop_always_separates(inp, st, checks) ==
    IF st.status # "run" \/ st.pos >= Len(inp) THEN st
    ELSE LET overhead_byte == inp[st.pos + 1]
             s0 == [st EXCEPT !.pos = st.pos + 1, !.reads = Max(st.reads, st.pos + 1)]
         IN  IF overhead_byte = 0 /\ checks THEN [s0 EXCEPT !.status = "panic"]
             ELSE LET n == (overhead_byte - 1) % 256
                      s1 == CopyRun(inp, n, [s0 EXCEPT !.short =
                                                 s0.short \/ n > Len(inp) - s0.pos])
                      s2 == IF Len(inp) - s1.pos > 0
                            THEN [s1 EXCEPT !.res = Append(s1.res, 0)] ELSE s1
                  IN  IF s1.status # "run" THEN s1
                      ELSE DecodeLoop_always_separates(inp, s2, checks)

RECURSIVE DecodeLoop(_, _, _)
\* `while let Some(overhead_byte) = it.next() { ... }`.  `overhead_byte - 1` is a u8
\* subtraction: on 0 it panics when overflow checks are on and wraps to 255 otherwise.
\* st.short records a length byte that declares more bytes than remain after it.
DecodeLoop(inp, st, checks) ==
    IF st.status # "run" \/ st.pos >= Len(inp) THEN st
    ELSE LET overhead_byte == inp[st.pos + 1]
             s0 == [st EXCEPT !.pos = st.pos + 1, !.reads = Max(st.reads, st.pos + 1)]
         IN  IF overhead_byte = 0 /\ checks THEN [s0 EXCEPT !.status = "panic"]
             ELSE LET n == (overhead_byte - 1) % 256
                      s1 == CopyRun(inp, n, [s0 EXCEPT !.short =
                                                 s0.short \/ n > Len(inp) - s0.pos])
                      s2 == IF overhead_byte # 255 /\ Len(inp) - s1.pos > 0
                            THEN [s1 EXCEPT !.res = Append(s1.res, 0)] ELSE s1
                  IN  IF s1.status # "run" THEN s1 ELSE DecodeLoop(inp, s2, checks)

\* fn cobs_decode
cobs_decode(inp, checks) ==
    DecodeLoop(inp, [res |-> <<>>, pos |-> 0, status |-> "run", short |-> FALSE,
                     reads |-> 0], checks)

(***************************************************************************)
(* The calls a client makes.                                               *)
(***************************************************************************)

Idle ==
    /\ op = "none"
    /\ method = "none" /\ output = <<>> /\ bytes_written = 0 /\ status = "none"
    /\ hi = 0 /\ ub = FALSE
    /\ decoded = <<>> /\ dstatus = "none" /\ short = FALSE /\ reads = 0
    /\ window = <<>> /\ found = <<>>
    /\ zero_method = "none" /\ processed = 0 /\ max_block_size = 0 /\ block = None
    /\ pulls = 0

Init ==
    /\ input \in Inputs
    /\ overflow_checks \in BOOLEAN
    /\ Idle

\* An encoder call that ran as r on the caller's buffer returns or fails: a panic is a
\* failure; a call that ran into undefined behaviour either goes on to return or crashes.
Encoded(m, r) ==
    /\ output' = r.output
    /\ hi' = r.hi
    /\ ub' = r.ub
    /\ \E outcome \in IF r.status = "panic" THEN {"panic"}
                      ELSE IF r.ub THEN {"ok", "fault"} ELSE {"ok"} :
          /\ status' = outcome
          /\ bytes_written' = IF outcome = "ok" THEN r.out_idx ELSE 0
    /\ method' = m
    /\ op' = "encode"
    /\ UNCHANGED <<input, overflow_checks, decVars, findVars, iterVars>>

\* cobs_encode_to(&input, &mut output, m) on a zero-filled buffer of cap bytes.
Encode(m, cap) ==
    /\ op = "none"
    /\ \E r \in {cobs_encode_to(input, cap, m, overflow_checks)} : Encoded(m, r)

\* cobs_encode_to_chained_iter::<SimdBlocks16>(&input, &mut output), as the tests call it.
EncodeChained16(cap) ==
    /\ op = "none"
    /\ \E r \in {cobs_encode_to_chained_iter("SimdBlocks16", input, cap, overflow_checks)} :
          Encoded("chained_iter_SimdBlocks16", r @@ [ub |-> FALSE])

\* cobs_decode(&output[..bytes_written]) after an encode call that returned.
DecodeEncoded ==
    /\ op = "encode" /\ status = "ok"
    /\ \E r \in {cobs_decode(SubSeq(output, 1, bytes_written), overflow_checks)} :
           /\ decoded' = r.res
           /\ dstatus' = IF r.status = "run" THEN "ok" ELSE "panic"
           /\ short' = r.short
           /\ reads' = r.reads
    /\ op' = "roundtrip"
    /\ UNCHANGED <<input, overflow_checks, encVars, findVars, iterVars>>

\* cobs_decode(&input): the input taken as wire data, well-formed or not.
DecodeRaw ==
    /\ op = "none"
    /\ \E r \in {cobs_decode(input, overflow_checks)} :
           /\ decoded' = r.res
           /\ dstatus' = IF r.status = "run" THEN "ok" ELSE "panic"
           /\ short' = r.short
           /\ reads' = r.reads
    /\ op' = "decode"
    /\ UNCHANGED <<input, overflow_checks, encVars, findVars, iterVars>>

\* BlockIter::<Z>::new(&input, max)
IterNew(Z, max) ==
    /\ op = "none"
    /\ zero_method' = Z
    /\ processed' = 0
    /\ max_block_size' = max
    /\ op' = "iter"
    /\ UNCHANGED <<input, overflow_checks, encVars, decVars, findVars, block, pulls>>

\* BlockIter::next
IterNext ==
    /\ op = "iter"
    /\ \E r \in {BlockIter_next(zero_method, input, processed, max_block_size)} :
           /\ block' = r.item
           /\ processed' = r.processed
           /\ pulls' = IF r.item = None THEN pulls ELSE pulls + 1
    /\ UNCHANGED <<input, overflow_checks, op, encVars, decVars, findVars, zero_method,
                   max_block_size>>

\* The buffers a caller passes: exactly the documented bound, or some bytes more.
Caps == {encoded_size_upper_bound(Len(input)),
         encoded_size_upper_bound(Len(input)) + Slack}

Next ==
    \/ \E m \in Methods : \E cap \in Caps : Encode(m, cap)
    \/ \E cap \in Caps : EncodeChained16(cap)
    \/ DecodeEncoded
    \/ DecodeRaw
    \/ \E Z \in ZeroMethods : \E max \in {MaxBlock, Len(input)} : IterNew(Z, max)
    \/ IterNext

Spec == Init /\ [][Next]_vars

(***************************************************************************)
(* The zero finders on their own.                                          *)
(***************************************************************************)

Finders == {"next_zero_index", "next_zero_index_simd", "SimdBlocks16",
            "SimdBlocksGeneric8", "SimdBlocksGeneric16", "SimdBlocksGeneric32"}

RunFinder(f, data) ==
    CASE f = "next_zero_index" -> next_zero_index(data)
      [] f = "next_zero_index_simd" -> next_zero_index_simd(data)
      [] OTHER -> ZeroMethod_next_zero_index(f, data)

InitFind ==
    /\ input \in Windows
    /\ overflow_checks \in BOOLEAN
    /\ Idle

\* Every finder is called on the window input[from..to] (0-based, `to` exclusive).
Find(from, to) ==
    /\ op = "none"
    /\ window' = SubSeq(input, from + 1, to)
    /\ found' = [f \in Finders |-> RunFinder(f, SubSeq(input, from + 1, to))]
    /\ op' = "find"
    /\ UNCHANGED <<input, overflow_checks, encVars, decVars, iterVars>>

NextFind == \E from \in {0, 1} : Find(from, Len(input))

SpecFind == InitFind /\ [][NextFind]_vars

(***************************************************************************)
(* Properties.                                                             *)
(***************************************************************************)

\* The bytes output[0..bytes_written] an encode call that returned has produced.
Encoding == SubSeq(output, 1, bytes_written)

ZeroFree(seq) == \A i \in 1..Len(seq) : seq[i] # 0

TwoStageMethods == {"StdSimd8TwoStage", "StdSimd16TwoStage", "StdSimd32TwoStage"}

\* C1 (round trip): whenever an input has been encoded by cobs_encode_to with any
\* Method into a buffer the call completed in, and the bytes_written bytes have been
\* passed to cobs_decode, the decoder returns, and returns exactly the input.
C1_RoundTrip ==
    (op = "roundtrip" /\ method \in Methods) => (dstatus = "ok" /\ decoded = input)

\* C2 (cross-strategy equivalence): whenever cobs_encode_to has returned for a Method,
\* the byte count and the bytes output[0..count] are those of the scalar direct loop
\* cobs_encode_to_vec on the same input.
C2_SameAsScalar ==
    (op = "encode" /\ method \in Methods /\ status = "ok")
        => Encoding = cobs_encode_to_vec(input)

\* C3 (size bound): an encode call on a buffer of exactly
\* encoded_size_upper_bound(input.len()) bytes completes, aims no access at an
\* output index at or beyond that bound, and returns a count within the bound.
C3_FitsUpperBound ==
    (op = "encode" /\ method \in Methods
        /\ Len(output) = encoded_size_upper_bound(Len(input)))
        => (status = "ok" /\ hi <= Len(output) /\ bytes_written <= Len(output))

\* C4 (zero-free output): none of the bytes output[0..bytes_written] of an encode call
\* that returned is zero; so no length prefix wrapped to 0.
C4_ZeroFreeOutput ==
    (op = "encode" /\ status = "ok") => ZeroFree(Encoding)

\* C4 witness: a two-stage encode of an input holding a zero-free run of 254 bytes and
\* two adjacent zeros has returned, its first length prefix being 255.
C4_Witness ==
    /\ op = "encode" /\ status = "ok" /\ method = "StdSimd16TwoStage"
    /\ Len(input) = 256 /\ input[255] = 0 /\ input[256] = 0
    /\ output[1] = 255

\* C5 (two-stage equals single-stage): whenever a two-stage encode
\* (cobs_encode_to_chained_iter) has returned, its byte count and bytes are those the
\* single-stage block encoder with the same zero finder produces on the same buffer.
C5_TwoStageSameAsSingleStage ==
    (op = "encode" /\ status = "ok"
        /\ method \in TwoStageMethods \cup {"chained_iter_SimdBlocks16"})
        => LET Z == CASE method = "StdSimd8TwoStage" -> "SimdBlocksGeneric8"
                      [] method = "StdSimd16TwoStage" -> "SimdBlocksGeneric16"
                      [] method = "StdSimd32TwoStage" -> "SimdBlocksGeneric32"
                      [] OTHER -> "SimdBlocks16"
               single == SingleStageLoop(Z, input, 0, EncInit(Len(output)),
                                         overflow_checks)
           IN  /\ single.status = "run"
               /\ bytes_written = single.out_idx
               /\ Encoding = SubSeq(single.output, 1, single.out_idx)

\* C6 (zero-finder agreement): on every window, SimdBlocks16::next_zero_index,
\* next_zero_index_simd and SimdBlocksGeneric<N>::next_zero_index for N = 8, 16, 32
\* return what the scalar scan returns: Some(i), i the index of the first zero byte of
\* the window, or None when the window holds no zero.
C6_FindersAgree ==
    op = "find" =>
        /\ \A f \in Finders : found[f] = found["next_zero_index"]
        /\ IF ZeroFree(window) THEN found["next_zero_index"] = None
           ELSE /\ found["next_zero_index"] # None
                /\ window[found["next_zero_index"][1] + 1] = 0
                /\ ZeroFree(SubSeq(window, 1, found["next_zero_index"][1]))

\* C6 witness: the finders have run on a window of 35 bytes (no multiple of 8, 16 or
\* 32) whose first zero is the last byte of a vector, at index 31.
C6_Witness ==
    /\ op = "find" /\ Len(window) = 35
    /\ found["SimdBlocksGeneric16"] = Some(31)
    /\ window[35] = 0

C8_MalformedFails ==
    op \in {"decode", "roundtrip"} =>
        /\ short => dstatus = "panic"
        /\ reads <= (IF op = "decode" THEN Len(input) ELSE bytes_written)

\* C8 witness: cobs_decode has failed on a truncated record after copying some bytes.
C8_Witness ==
    /\ op = "decode" /\ short /\ dstatus = "panic"
    /\ Len(decoded) > 0 /\ reads = Len(input)

\* What C9 expects of n zero-free bytes x, 254 < n < 508:
\* [0xFF] ++ x[0..254] ++ [n - 254 + 1] ++ x[254..n].
C9_Expected(x) ==
    <<255>> \o SubSeq(x, 1, 254) \o <<Len(x) - 254 + 1>> \o SubSeq(x, 255, Len(x))

\* C9 (254-byte run boundary): for an input of n zero-free bytes, 254 < n < 508, every
\* encoder (those the tests exercise among them), on a buffer of the documented bound
\* or larger, returns n + 2 and has written 0xFF, the first 254 input bytes,
\* n - 254 + 1 and the remaining input bytes; cobs_encode_to_vec returns the same.
C9_RunBoundary ==
    (op = "encode" /\ ZeroFree(input) /\ 254 < Len(input) /\ Len(input) < 508)
        => /\ status = "ok"
           /\ bytes_written = Len(input) + 2
           /\ Encoding = C9_Expected(input)
           /\ cobs_encode_to_vec(input) = C9_Expected(input)

\* C9 witness: cobs_encode_to_c has encoded the 255 bytes 0x01..=0xFF into a buffer of
\* exactly the documented bound, ending in 0x02, 0xFF.
C9_Witness ==
    /\ op = "encode" /\ method = "Crazy" /\ status = "ok"
    /\ Len(input) = 255 /\ ZeroFree(input) /\ input[255] = 255
    /\ Len(output) = 257 /\ output[256] = 2 /\ output[257] = 255

\* C10 (pointer-variant write safety): in cobs_encode_to_c on a non-empty input and a
\* buffer of exactly encoded_size_upper_bound(input.len()) bytes, every write through
\* `encode` or `codep` is aimed at an index below output.len(), and at no index at or
\* beyond the byte count returned.
C10_PointerWritesInBounds ==
    (op = "encode" /\ method = "Crazy" /\ Len(input) > 0
        /\ Len(output) = encoded_size_upper_bound(Len(input)))
        => /\ ~ub
           /\ hi <= Len(output)
           /\ status = "ok" => hi <= bytes_written

\* A step in which BlockIter::next yields an empty block.
YieldsEmpty == op = "iter" /\ op' = "iter" /\ block' = Some(<<>>)

\* The pull is made in the pending-terminal state.
PendingTerminal == processed = Len(input)

\* The byte at the cursor is a zero.
ZeroAtCursor == processed < Len(input) /\ input[processed + 1] = 0

\* C11 as stated (empty blocks): BlockIter::next yields an empty block only in the
\* pending-terminal state (processed = input.len()), or, driven with
\* max_block_size = input.len(), between two adjacent zeros; with max_block_size = 254
\* no block but the last one yielded is empty.
C11_EmptyOnlyFinalOrAdjacentZeros ==
    [][YieldsEmpty =>
         \/ PendingTerminal
         \/ /\ max_block_size = Len(input)
            /\ ZeroAtCursor /\ processed >= 1 /\ input[processed] = 0]_vars

\* C11 as amended: BlockIter::next yields an empty block only in the pending-terminal
\* state or when the byte at the cursor is a zero (the input starts with a zero, a
\* zero follows a zero, or a zero follows a full block), whatever max_block_size is.
C11_EmptyOnlyFinalOrZeroAtCursor ==
    [][YieldsEmpty => (PendingTerminal \/ ZeroAtCursor)]_vars

\* C11 witness: with max_block_size = 254 an empty block that is not the last one has
\* been yielded for the zero that follows a full block of 254 bytes.
C11_Witness ==
    /\ op = "iter" /\ max_block_size = MaxBlock /\ block = Some(<<>>)
    /\ processed = 255 /\ Len(input) > 255 /\ input[255] = 0 /\ pulls = 2

\* C12 (progress and absorbing done state): across any sequence of calls to
\* BlockIter::next, `processed` strictly increases on every call that yields a block
\* and never exceeds input.len() + 1; the done state processed = input.len() + 1 is
\* reached after at most input.len() + 1 yielding calls; and every call made in the
\* done state returns None and leaves `processed` unchanged.
C12_ProgressAndDone ==
    /\ [](op = "iter" =>
            /\ processed <= Len(input) + 1
            /\ pulls <= Len(input) + 1
            /\ pulls = Len(input) + 1 => processed = Len(input) + 1)
    /\ [][(op = "iter" /\ op' = "iter") =>
            /\ pulls' > pulls => (block' # None /\ processed' > processed)
            /\ block' # None => pulls' > pulls
            /\ processed = Len(input) + 1 =>
                   (block' = None /\ processed' = processed /\ pulls' = pulls)]_vars

\* C12 witness: after three yielding calls on an input of two zeros the iterator is
\* done, and a further call has returned None.
C12_Witness ==
    /\ op = "iter" /\ Len(input) = 2 /\ pulls = 3
    /\ processed = Len(input) + 1 /\ block = None

\* The wire bytes the last cobs_decode call was given.
Wire == IF op = "decode" THEN input ELSE Encoding

RECURSIVE WellFormed(_, _)
\* The wire bytes from 0-based position pos on are a sequence of whole records: each a
\* length byte L in 1..255 followed by L - 1 payload bytes.
WellFormed(wire, pos) ==
    IF pos >= Len(wire) THEN TRUE
    ELSE LET L == wire[pos + 1]
         IN  L >= 1 /\ pos + L <= Len(wire) /\ WellFormed(wire, pos + L)

RECURSIVE C13_Expected(_, _)
\* What C13 expects of the records from position pos on: the payload of each record,
\* followed by one zero exactly when L # 255 and a byte remains after the record.
C13_Expected(wire, pos) ==
    IF pos >= Len(wire) THEN <<>>
    ELSE LET L == wire[pos + 1]
             payload == SubSeq(wire, pos + 2, pos + L)
             separator == IF L # 255 /\ pos + L < Len(wire) THEN <<0>> ELSE <<>>
         IN  payload \o separator \o C13_Expected(wire, pos + L)

\* C13 (decoder separator rule): on every well-formed record sequence cobs_decode
\* returns the payload bytes of the records in order, with one zero after a record
\* exactly when its length byte is not 255 and input remains after it; so [n + 1] ++ p,
\* p zero-free of n < 254 bytes, decodes to exactly p.
C13_SeparatorRule ==
    (op \in {"decode", "roundtrip"} /\ WellFormed(Wire, 0))
        => /\ dstatus = "ok"
           /\ decoded = C13_Expected(Wire, 0)
           /\ (Len(Wire) >= 1 /\ Wire[1] = Len(Wire) /\ Len(Wire) < 255)
                  => decoded = SubSeq(Wire, 2, Len(Wire))

\* C13 witness: cobs_decode has returned on the records [0xFF, 254 bytes], [0x01],
\* [0x02, b]: 254 bytes without separator, then the zero after [0x01], then b.
C13_Witness ==
    /\ op = "roundtrip" /\ dstatus = "ok" /\ bytes_written = 258
    /\ output[1] = 255 /\ output[256] = 1 /\ output[257] = 2
    /\ Len(decoded) = 256 /\ decoded[254] # 0 /\ decoded[255] = 0 /\ decoded[256] # 0

====
